---- MODULE Spec2Model ----
(***************************************************************************)
(* Model of the procedural audio engine of src/index.tsx (ZenAudioEngine)  *)
(* together with the two platform services it drives: the timer table of   *)
(* setTimeout/clearTimeout and the automation timeline of an AudioParam.   *)
(*                                                                         *)
(* Units: times are milliseconds, frequencies are hundredths of a hertz,   *)
(* gains and probabilities are thousandths (0.5 is 500), a Math.random()   *)
(* result r is carried as floor(1000 * r), so it ranges over 0..999.       *)
(* A node reference is the number of the start() call that created the     *)
(* node; 0 is null.                                                        *)
(***************************************************************************)
EXTENDS Integers, Sequences, FiniteSets, Bags, TLC

\* ---------------------------------------------------------------- bounds
\* the model follows the engine for MaxSeconds seconds and MaxCalls calls
MaxSeconds == 2
MaxCalls == 3
\* at most MaxStarts of the calls build a graph
MaxStarts == 2

\* the arguments tried for setTheme(themeIndex)
ThemeIndices == {-11, -10, 5, 11, 12}
\* the results tried for Math.random() at the probability gate (line 168),
\* at the pitch choice (line 175) and at the interval choice (line 233)
GateRandoms == {0, 999}
PitchRandoms == {999}
TimeRandoms == {500}

\* ---------------------------------------------------------------- data
NOTES ==
  [C3 |-> 13081, D3 |-> 14683, E3 |-> 16481, F3 |-> 17461, G3 |-> 19600,
   A3 |-> 22000, B3 |-> 24694,
   C4 |-> 26163, Db4 |-> 27718, D4 |-> 29366, Eb4 |-> 31113, E4 |-> 32963,
   F4 |-> 34923, Gb4 |-> 36999, G4 |-> 39200, Ab4 |-> 41530, A4 |-> 44000,
   Bb4 |-> 46616, B4 |-> 49388,
   C5 |-> 52325, D5 |-> 58733, E5 |-> 65925, G5 |-> 78399, A5 |-> 88000,
   C6 |-> 104650]

Preset(n, ty, sc, ff, dc, dt, fb, pr) ==
  [name |-> n, type |-> ty, scale |-> sc, filterFreq |-> ff, decay |-> dc,
   delayTime |-> dt, feedback |-> fb, probability |-> pr]

\* filterFreq 0 stands for an absent filterFreq
THEMES ==
  << Preset("Empty Mountain", "bell",
            <<NOTES.C3, NOTES.G3, NOTES.C4, NOTES.D4, NOTES.E4, NOTES.G4>>,
            0, 4000, 600, 400, 800),
     Preset("Night Rain", "pluck",
            <<NOTES.C4, NOTES.Eb4, NOTES.F4, NOTES.G4, NOTES.Bb4, NOTES.C5>>,
            0, 800, 250, 200, 900),
     Preset("Bamboo Forest", "wood",
            <<NOTES.E3, NOTES.G3, NOTES.A3, NOTES.B3, NOTES.D4, NOTES.E4>>,
            80000, 1200, 400, 300, 700),
     Preset("Flowing Water", "piano",
            <<NOTES.G4, NOTES.A4, NOTES.C5, NOTES.D5, NOTES.E5, NOTES.G5>>,
            0, 2000, 300, 500, 900),
     Preset("Morning Bell", "bell",
            <<NOTES.C3, NOTES.G3, NOTES.C4>>,
            0, 6000, 1000, 600, 400),
     Preset("Cloud Wandering", "pad",
            <<NOTES.C4, NOTES.D4, NOTES.E4, NOTES.Gb4, NOTES.G4, NOTES.A4,
              NOTES.B4>>,
            0, 5000, 800, 700, 500),
     Preset("Ancient Temple", "wood",
            <<NOTES.C3, NOTES.Db4, NOTES.F4, NOTES.G4, NOTES.Bb4>>,
            0, 2500, 500, 400, 600),
     Preset("Clear Breeze", "piano",
            <<NOTES.F3, NOTES.G3, NOTES.A3, NOTES.C4, NOTES.D4, NOTES.F4>>,
            0, 3500, 500, 300, 700),
     Preset("Moon Reflection", "bell",
            <<NOTES.E4, NOTES.G4, NOTES.A4, NOTES.B4, NOTES.D5, NOTES.E5>>,
            0, 3000, 700, 500, 600),
     Preset("The Return", "pad",
            <<NOTES.C3, NOTES.E3, NOTES.G3, NOTES.B3, NOTES.C4>>,
            0, 4500, 500, 400, 500) >>

\* JavaScript's % : the remainder takes the sign of the dividend
JsRem(a, n) == IF a >= 0 THEN a % n ELSE -((-a) % n)

\* THEMES[k] of a JavaScript array: defined for 0 <= k < length only
IsTheme(k) == k \in 0..(Len(THEMES) - 1)
Theme(k) == THEMES[k + 1]

\* ------------------------------------------------- AudioParam timeline
SetEvent(v, t) == [kind |-> "set", value |-> v, time |-> t]
RampEvent(v, t) == [kind |-> "ramp", value |-> v, time |-> t]

\* index of the last event scheduled at or before t, 0 when there is none
LastAtOrBefore(ev, t) ==
  LET I == {i \in 1..Len(ev) : ev[i].time <= t}
  IN IF I = {} THEN 0 ELSE CHOOSE i \in I : \A j \in I : j <= i

\* the value the timeline gives the parameter at time t
ValueAt(ev, t, default) ==
  LET i == LastAtOrBefore(ev, t)
  IN IF i = 0 THEN default
     ELSE IF i < Len(ev) /\ ev[i + 1].kind = "ramp"
          THEN ev[i].value
               + ((ev[i + 1].value - ev[i].value) * (t - ev[i].time))
                 \div (ev[i + 1].time - ev[i].time)
          ELSE ev[i].value

\* an event is inserted after the events that are not later than it
InsertEvent(ev, e) ==
  LET i == LastAtOrBefore(ev, e.time)
  IN SubSeq(ev, 1, i) \o <<e>> \o SubSeq(ev, i + 1, Len(ev))

\* a cancelScheduledValues that drops nothing
CancelNothing(ev, t) == ev

\* cancelScheduledValues(t): drops every event scheduled at or after t
CancelScheduledValues(ev, t) ==
  SelectSeq(ev, LAMBDA e : e.time < t)

\* the events before the one in force at t no longer influence the value
Forget(ev, t) ==
  LET i == LastAtOrBefore(ev, t)
  IN IF i <= 1 THEN ev ELSE SubSeq(ev, i, Len(ev))

\* effect parameters keep their value events and their latest ramp
RampParam(ev, v, t) ==
  (IF ev # <<>> /\ ev[Len(ev)].kind = "ramp"
   THEN SubSeq(ev, 1, Len(ev) - 1) ELSE ev) \o <<RampEvent(v, t)>>

GainDefault == 1000
FadeInTarget == 500
FadeSeconds == 3000
RampSeconds == 1000
BaseDelay == 1000
PadGap == 4000
OtherGap == 2000
StopTail == 1000

\* the application calls in at instants one shortest tick interval apart
CallGrid == BaseDelay

\* ---------------------------------------------------------------- state
VARIABLES
  ctx,            \* TRUE when the constructor found an AudioContext class
  ctxState,       \* "suspended" or "running" ("none" without a context)
  masterGain,     \* node references of the engine, 0 is null
  compressor,
  delayNode,
  delayFeedback,
  intervalId,     \* the handle returned by the last setTimeout, 0 is null
  currentTheme,   \* index into THEMES; outside 0..9 the theme is undefined
  graphs,         \* the nodes created by each start() call, in call order
  timers,         \* the platform's pending timeouts, [id, due]
  notes,          \* bag of the note sources not yet at their stop time
  clock,          \* ctx.currentTime and the timer clock, in ms
  thrown,         \* what the last start/setTheme/stop call threw
  lastCall,       \* the last method the application called
  lastTick,       \* what the last run of scheduleNextNote did
  startCalled,    \* start() has been called on this engine
  trace,          \* "fresh", "started", "startStop" or "other"
  typeErrorSeen,  \* some call or tick has thrown a TypeError
  calls,          \* the number of calls made from outside so far: engine
                  \* calls, or runs of an App handler that calls the engine
  running,        \* the last of the start()/stop() calls was a start()
  view,           \* the App's view: "HOME", "SESSION" or "DONE"
  timeLeft        \* the App's countdown, in seconds

vars == <<ctx, ctxState, masterGain, compressor, delayNode, delayFeedback,
          intervalId, currentTheme, graphs, timers, notes, clock, thrown,
          lastCall, lastTick, startCalled, trace, typeErrorSeen,
          calls, running, view, timeLeft>>

app == <<view, timeLeft>>

engine == <<ctx, masterGain, compressor, delayNode, delayFeedback,
            intervalId, currentTheme>>

NoTick == [kind |-> "none", theme |-> 0, freq |-> 0, delay |-> 0, at |-> 0]

Init ==
  /\ ctx \in BOOLEAN
  /\ ctxState \in (IF ctx THEN {"suspended", "running"} ELSE {"none"})
  /\ masterGain = 0
  /\ compressor = 0
  /\ delayNode = 0
  /\ delayFeedback = 0
  /\ intervalId = 0
  /\ currentTheme = 0
  /\ graphs = <<>>
  /\ timers = {}
  /\ notes = EmptyBag
  /\ clock = 0
  /\ thrown = "none"
  /\ lastCall = "none"
  /\ lastTick = NoTick
  /\ startCalled = FALSE
  /\ trace = "fresh"
  /\ typeErrorSeen = FALSE
  /\ calls = 0
  /\ running = FALSE
  /\ view = "HOME"
  /\ timeLeft = 0

\* ------------------------------------------------------ timer platform
TimerIds(tm) == {t.id : t \in tm}

\* a fresh handle: the least positive integer no pending timeout holds
FreshTimerId(tm) ==
  CHOOSE n \in 1..(Cardinality(tm) + 1) :
    /\ n \notin TimerIds(tm)
    /\ \A m \in 1..(n - 1) : m \in TimerIds(tm)

SetTimeout(tm, id, delay, now) == tm \cup {[id |-> id, due |-> now + delay]}

\* a clearTimeout that cancels nothing
ClearTimeoutKeeps(tm, id) == tm

ClearTimeout(tm, id) == {t \in tm : t.id # id}

\* ------------------------------------------------------------ playNote
\* line 168: the probability gate
GateSkips(theme, r) == r > theme.probability

\* the pitch taken from the scale of the constructor's default theme
PickFreqDefaultTheme(theme, r) ==
  THEMES[1].scale[((r * Len(THEMES[1].scale)) \div 1000) + 1]

\* line 175: theme.scale[Math.floor(Math.random() * theme.scale.length)]
PickFreq(theme, r) == theme.scale[((r * Len(theme.scale)) \div 1000) + 1]

\* nodes are <<name, n>>: n is the start() call that created a graph node
\* and 0 for the nodes of a note and for the output device
Destination == <<"destination", 0>>
N(name) == <<name, 0>>

\* a wood note whose carrier is also connected straight to its envelope
NoteEdgesWoodDirect(type, mg) ==
  {<<N("osc"), N("filter")>>, <<N("filter"), N("gain")>>,
   <<N("osc"), N("gain")>>, <<N("gain"), <<"masterGain", mg>>>>}

\* lines 188-189, 198-200, 219-223: the connections playNote makes
NoteEdges(type, mg) ==
  (IF type = "bell"
   THEN {<<N("mod"), N("modGain")>>, <<N("modGain"), N("osc")>>}
   ELSE IF type = "wood"
   THEN {<<N("osc"), N("filter")>>, <<N("filter"), N("gain")>>}
   ELSE {})
  \cup (IF type # "wood" THEN {<<N("osc"), N("gain")>>} ELSE {})
  \cup {<<N("gain"), <<"masterGain", mg>>>>}

\* an attack that takes 2 s whatever the timbre
AttackEndPadEverywhere(theme, now) == now + 2000

\* lines 210, 214: the instant the envelope reaches its peak
AttackEnd(theme, now) == IF theme.type = "pad" THEN now + 2000 ELSE now + 20

NoteOf(theme, freq, mg, now) ==
  [freq |-> freq, type |-> theme.type, start |-> now,
   attackEnd |-> AttackEnd(theme, now),
   envEnd |-> now + theme.decay,
   stopAt |-> now + theme.decay + StopTail,
   filterFreq |-> IF theme.type = "wood"
                  THEN (IF theme.filterFreq # 0 THEN theme.filterFreq
                        ELSE 40000)
                  ELSE 0,
   edges |-> NoteEdges(theme.type, mg),
   dest |-> mg]

\* the outcome of playNote(): exc is what it throws, made the notes it adds
PlayNote(hasCtx, mg, themeIdx, rGate, rPitch, fail, now) ==
  IF ~hasCtx \/ mg = 0
  THEN [exc |-> "none", kind |-> "return", freq |-> 0, made |-> {}]
  ELSE IF ~IsTheme(themeIdx)
  THEN [exc |-> "TypeError", kind |-> "TypeError", freq |-> 0, made |-> {}]
  ELSE IF GateSkips(Theme(themeIdx), rGate)
  THEN [exc |-> "none", kind |-> "skip", freq |-> 0, made |-> {}]
  ELSE IF fail
  THEN [exc |-> "NodeError", kind |-> "NodeError", freq |-> 0, made |-> {}]
  ELSE LET f == PickFreq(Theme(themeIdx), rPitch)
       IN [exc |-> "none", kind |-> "note", freq |-> f,
           made |-> {NoteOf(Theme(themeIdx), f, mg, now)}]

\* ---------------------------------------------------- scheduleNextNote
Gap(theme) == IF theme.type = "pad" THEN PadGap ELSE OtherGap

\* line 233: Math.random() * gap + 1000
NextTime(theme, r) == (r * Gap(theme)) \div 1000 + BaseDelay

\* the outcome of scheduleNextNote() run at time now with timer table tm
ScheduleNextNote(hasCtx, mg, k, tm, id, rGate, rPitch, rTime, fail, now) ==
  LET p == PlayNote(hasCtx, mg, k, rGate, rPitch, fail, now)
  IN IF p.exc # "none"
     THEN [exc |-> p.exc, made |-> {}, timers |-> tm, intervalId |-> id,
           tick |-> [kind |-> p.kind, theme |-> k, freq |-> 0,
                     delay |-> 0, at |-> now]]
     ELSE IF ~IsTheme(k)
     THEN [exc |-> "TypeError", made |-> {}, timers |-> tm,
           intervalId |-> id,
           tick |-> [kind |-> "TypeError", theme |-> k, freq |-> 0,
                     delay |-> 0, at |-> now]]
     ELSE LET d == NextTime(Theme(k), rTime)
              n == FreshTimerId(tm)
          IN [exc |-> "none", made |-> p.made,
              timers |-> SetTimeout(tm, n, d, now), intervalId |-> n,
              tick |-> [kind |-> p.kind, theme |-> k,
                        freq |-> p.freq, delay |-> d, at |-> now]]

\* ------------------------------------------------------------- setTheme
\* a lookup that drops the sign and forgets to wrap
ThemeLookupNoWrap(themeIndex) ==
  IF themeIndex < 0 THEN -themeIndex ELSE themeIndex

\* line 122: THEMES[themeIndex % THEMES.length]
ThemeLookup(themeIndex) == JsRem(themeIndex, Len(THEMES))

\* lines 124-127: the ramps setTheme schedules once a graph exists
SetThemeGraphs(k) ==
  IF delayNode # 0 /\ delayFeedback # 0 /\ ctx /\ IsTheme(k)
  THEN [graphs EXCEPT
          ![delayNode].delayTime =
             RampParam(@, Theme(k).delayTime, clock + RampSeconds),
          ![delayFeedback].feedback =
             RampParam(@, Theme(k).feedback, clock + RampSeconds)]
  ELSE graphs

\* line 125 reads delayTime of undefined
SetThemeThrown(k) ==
  IF delayNode # 0 /\ delayFeedback # 0 /\ ctx /\ ~IsTheme(k)
  THEN "TypeError" ELSE "none"

SetTheme(themeIndex) ==
  LET k == ThemeLookup(themeIndex)
  IN /\ calls < MaxCalls
     /\ calls' = calls + 1
     /\ currentTheme' = k
     /\ thrown' = SetThemeThrown(k)
     /\ graphs' = SetThemeGraphs(k)
     /\ typeErrorSeen' = (typeErrorSeen \/ thrown' = "TypeError")
     /\ lastCall' = "setTheme"
     /\ trace' = "other"
     /\ UNCHANGED <<ctx, ctxState, masterGain, compressor, delayNode,
                    delayFeedback, intervalId, timers, notes, clock,
                    lastTick, startCalled, running>>

\* ---------------------------------------------------------------- start
\* a start() without its guard
StartNeverReturnsEarly(hasCtx) == FALSE

\* line 131: if (!this.ctx) return
StartReturnsEarly(hasCtx) == ~hasCtx

\* a feedback node left at the gain a new GainNode has
StartFeedbackDefault(theme) == GainDefault

\* line 147: the gain the feedback node is given
StartFeedback(theme) == theme.feedback

\* lines 152-157: the connections start() makes among the nodes of call g
GraphEdges(g) ==
  {<< <<"masterGain", g>>, <<"compressor", g>> >>,
   << <<"masterGain", g>>, <<"delayNode", g>> >>,
   << <<"delayNode", g>>, <<"delayFeedback", g>> >>,
   << <<"delayFeedback", g>>, <<"delayNode", g>> >>,
   << <<"delayNode", g>>, <<"compressor", g>> >>,
   << <<"compressor", g>>, Destination >>}

\* lines 135-137: a new master gain, at 0 now and ramping to 0.5 in 3 s
FadeIn(now) ==
  InsertEvent(InsertEvent(<<>>, SetEvent(0, now)),
              RampEvent(FadeInTarget, now + FadeSeconds))

\* start() run with active theme k and graphs gs, counted as n calls
StartFrom(k, gs, n, rGate, rPitch, rTime, fail) ==
  /\ calls + n <= MaxCalls
  /\ calls' = calls + n
  /\ lastCall' = "start"
  /\ startCalled' = TRUE
  /\ running' = TRUE
  /\ trace' = (IF trace = "fresh" /\ n = 1 THEN "started" ELSE "other")
  /\ currentTheme' = k
  /\ UNCHANGED <<ctx, clock>>
  /\ IF StartReturnsEarly(ctx)
     THEN /\ thrown' = "none"
          /\ typeErrorSeen' = typeErrorSeen
          /\ UNCHANGED <<ctxState, masterGain, compressor, delayNode,
                         delayFeedback, intervalId, timers, notes, lastTick>>
          /\ graphs' = gs
     ELSE IF ~ctx
     THEN \* this.ctx.state on a null context
          /\ thrown' = "TypeError"
          /\ typeErrorSeen' = TRUE
          /\ UNCHANGED <<ctxState, masterGain, compressor, delayNode,
                         delayFeedback, intervalId, timers, notes, lastTick>>
          /\ graphs' = gs
     ELSE
       LET g == Len(gs) + 1 IN
       /\ g <= MaxStarts
       /\ ctxState' = "running"
       /\ masterGain' = g
       /\ compressor' = g
       /\ delayNode' = g
       /\ IF ~IsTheme(k)
          THEN \* line 144 reads delayTime of undefined
               /\ graphs' = Append(gs,
                              [mg |-> FadeIn(clock), delayTime |-> <<>>,
                               feedback |-> <<>>, wired |-> FALSE,
                               edges |-> {}])
               /\ thrown' = "TypeError"
               /\ typeErrorSeen' = TRUE
               /\ UNCHANGED <<delayFeedback, intervalId, timers, notes,
                              lastTick>>
          ELSE
            LET s == ScheduleNextNote(ctx, g, k, timers, intervalId,
                                      rGate, rPitch, rTime, fail, clock)
            IN /\ graphs' = Append(gs,
                    [mg |-> FadeIn(clock),
                     delayTime |->
                       <<SetEvent(Theme(k).delayTime, clock)>>,
                     feedback |->
                       <<SetEvent(StartFeedback(Theme(k)), clock)>>,
                     wired |-> TRUE, edges |-> GraphEdges(g)])
               /\ delayFeedback' = g
               /\ thrown' = s.exc
               /\ typeErrorSeen' = (typeErrorSeen \/ s.exc = "TypeError")
               /\ timers' = s.timers
               /\ intervalId' = s.intervalId
               /\ notes' = notes (+) SetToBag(s.made)
               /\ lastTick' = s.tick

Start(rGate, rPitch, rTime, fail) ==
  StartFrom(currentTheme, graphs, 1, rGate, rPitch, rTime, fail)

\* ----------------------------------------------------------------- stop
\* a guard that forgets the master gain
StopReturnsEarlyNoGain(hasCtx, mg) == ~hasCtx

\* line 239: if (!this.ctx || !this.masterGain) return
StopReturnsEarly(hasCtx, mg) == ~hasCtx \/ mg = 0

\* lines 241-244: hold the present level, then ramp to 0 in 3 s
FadeOut(ev, now) ==
  LET c == CancelScheduledValues(ev, now)
      v == ValueAt(ev, now, GainDefault)
      s == InsertEvent(c, SetEvent(v, now))
  IN Forget(InsertEvent(s, RampEvent(0, now + FadeSeconds)), now)

\* a stop() that also takes the graph off the output at once
StopGraphTearsDown(g, now) ==
  [g EXCEPT !.mg = FadeOut(@, now), !.wired = FALSE, !.edges = {}]

\* lines 241-244: what stop() does to the nodes of the engine's graph
StopGraph(g, now) == [g EXCEPT !.mg = FadeOut(@, now)]

Stop ==
  /\ calls < MaxCalls
  /\ calls' = calls + 1
  /\ lastCall' = "stop"
  /\ running' = FALSE
  /\ trace' = (IF trace = "started" THEN "startStop" ELSE "other")
  /\ timers' = (IF intervalId # 0 THEN ClearTimeout(timers, intervalId)
                ELSE timers)
  /\ IF StopReturnsEarly(ctx, masterGain)
     THEN /\ thrown' = "none"
          /\ graphs' = graphs
     ELSE IF ~ctx \/ masterGain = 0
     THEN \* currentTime of a null context, gain of a null node
          /\ thrown' = "TypeError"
          /\ graphs' = graphs
     ELSE /\ thrown' = "none"
          /\ graphs' = [graphs EXCEPT ![masterGain] = StopGraph(@, clock)]
  /\ typeErrorSeen' = (typeErrorSeen \/ thrown' = "TypeError")
  /\ UNCHANGED <<ctx, ctxState, masterGain, compressor, delayNode,
                 delayFeedback, intervalId, currentTheme, notes, clock,
                 lastTick, startCalled>>

\* ------------------------------------------------- the timeout callback
Tick(t, rGate, rPitch, rTime, fail) ==
  /\ t \in timers
  /\ t.due <= clock
  /\ LET s == ScheduleNextNote(ctx, masterGain, currentTheme,
                               timers \ {t}, intervalId, rGate, rPitch,
                               rTime, fail, clock)
     IN /\ timers' = s.timers
        /\ intervalId' = s.intervalId
        /\ notes' = notes (+) SetToBag(s.made)
        /\ lastTick' = s.tick
        /\ typeErrorSeen' = (typeErrorSeen \/ s.exc = "TypeError")
  /\ UNCHANGED <<ctx, ctxState, masterGain, compressor, delayNode,
                 delayFeedback, currentTheme, graphs, clock, thrown,
                 lastCall, startCalled, trace, calls, running>>

\* ------------------------------------------------------ passage of time
NextInstant ==
  LET grid == ((clock \div CallGrid) + 1) * CallGrid
      S == {grid} \cup {t.due : t \in timers}
  IN CHOOSE m \in S : \A n \in S : m <= n

Advance ==
  /\ \A t \in timers : t.due > clock
  /\ NextInstant <= MaxSeconds * 1000
  /\ clock' = NextInstant
  /\ notes' = [n \in {m \in DOMAIN notes : m.stopAt > NextInstant}
                 |-> notes[n]]
  /\ UNCHANGED <<ctx, ctxState, masterGain, compressor, delayNode,
                 delayFeedback, intervalId, currentTheme, graphs, timers,
                 thrown, lastCall, lastTick, startCalled, trace,
                 typeErrorSeen, calls, running>>

Next ==
  \/ \E i \in ThemeIndices : SetTheme(i) /\ UNCHANGED app
  \/ \E rg \in GateRandoms, rp \in PitchRandoms, rt \in TimeRandoms,
        fail \in BOOLEAN : Start(rg, rp, rt, fail) /\ UNCHANGED app
  \/ Stop /\ UNCHANGED app
  \/ \E t \in timers, rg \in GateRandoms, rp \in PitchRandoms,
        rt \in TimeRandoms, fail \in BOOLEAN :
          Tick(t, rg, rp, rt, fail) /\ UNCHANGED app
  \/ Advance /\ UNCHANGED app

Spec == Init /\ [][Next]_vars

\* ------------------------------------------------------------- the App
\* everything but the App's own state
world == <<ctx, ctxState, masterGain, compressor, delayNode, delayFeedback,
           intervalId, currentTheme, graphs, timers, notes, clock, thrown,
           lastCall, lastTick, startCalled, trace, typeErrorSeen, calls,
           running>>

\* lines 333-335: the two buttons of the HOME view
SessionMinutes == {3, 5}

\* Math.random() at line 264, in thousandths
ThemeRandoms == {150, 550}

\* line 264: Math.floor(Math.random() * THEMES.length)
RandomThemeIndex(r) == (r * Len(THEMES)) \div 1000

\* lines 258-276: a HOME button's handler: setTimeLeft, setView, then
\* setTheme(randomThemeIndex) and start() on the engine
StartSession(minutes, rTheme, rGate, rPitch, rTime, fail) ==
  LET k == ThemeLookup(RandomThemeIndex(rTheme))
  IN /\ view = "HOME"
     /\ timeLeft' = minutes * 60
     /\ view' = "SESSION"
     /\ StartFrom(k, SetThemeGraphs(k), 1, rGate, rPitch, rTime, fail)

\* lines 278-281: setView('DONE'), then stop()
EndSession == view' = "DONE" /\ Stop

\* lines 287-302: the 1 s interval of the SESSION view
Countdown ==
  /\ view = "SESSION"
  /\ timeLeft > 0
  /\ IF timeLeft <= 1
     THEN timeLeft' = 0 /\ EndSession
     ELSE timeLeft' = timeLeft - 1 /\ UNCHANGED <<view, world>>

\* a stop button that only goes back to the HOME view
StopButtonOnlyResets ==
  view = "SESSION" /\ view' = "HOME" /\ UNCHANGED <<timeLeft, world>>

\* lines 380-383: the SESSION view's button: stop(), then reset()
StopButton ==
  view = "SESSION" /\ Stop /\ view' = "HOME" /\ UNCHANGED timeLeft

\* lines 283-285, 399-400: the DONE view's button
Reset == view = "DONE" /\ view' = "HOME" /\ UNCHANGED <<timeLeft, world>>

AppNext ==
  \/ \E m \in SessionMinutes, rth \in ThemeRandoms, rg \in GateRandoms,
        rp \in PitchRandoms, rt \in TimeRandoms, fail \in BOOLEAN :
          StartSession(m, rth, rg, rp, rt, fail)
  \/ Countdown
  \/ StopButton
  \/ Reset
  \/ \E t \in timers, rg \in GateRandoms, rp \in PitchRandoms,
        rt \in TimeRandoms, fail \in BOOLEAN :
          Tick(t, rg, rp, rt, fail) /\ UNCHANGED app
  \/ Advance /\ UNCHANGED app

AppSpec == Init /\ [][AppNext]_vars

\* ============================================================== claims
Range(f) == {f[i] : i \in DOMAIN f}

\* C1: after stop() the scheduler is idle, no tick is pending, whatever
\* calls and ticks came before (start() twice in a row included).
C1_StopLeavesIdle == lastCall = "stop" => timers = {}

\* C2: in every reachable state at most one scheduling tick is pending.
C2_AtMostOnePendingTick == Cardinality(timers) <= 1

\* C3: for every integer index the lookup of setTheme(i) yields a theme of
\* the catalog, and neither setTheme(i) nor a following start() throws.
C3_ThemeLookupTotal ==
  /\ IsTheme(currentTheme)
  /\ lastCall \in {"setTheme", "start"} => thrown # "TypeError"

\* C4: a run of scheduleNextNote whose note creation fails still arms the
\* next tick: afterwards the handle it stored is that of a pending tick.
C4_FailedNoteRearms ==
  [][(lastTick' # lastTick /\ lastTick'.kind = "NodeError")
       => \E t \in timers' : t.id = intervalId' /\ t.due > clock']_vars

\* C5: a stop() that directly follows a stop() does not throw, leaves no
\* tick pending and leaves the master gain's level as the first stop()
\* scheduled it, now and over the three seconds of the fade.
C5_SecondStopIsNoOp ==
  [][(lastCall = "stop" /\ lastCall' = "stop" /\ calls' = calls + 1)
       => /\ thrown' = "none"
          /\ timers' = {}
          /\ \A g \in 1..Len(graphs) : \A k \in 0..(FadeSeconds \div CallGrid) :
               ValueAt(graphs'[g].mg, clock + k * CallGrid, GainDefault)
                 = ValueAt(graphs[g].mg, clock + k * CallGrid, GainDefault)
     ]_vars

\* C6: stop() on an engine whose start() was never called does not throw,
\* changes nothing of the engine and leaves no tick pending.
C6_StopBeforeStartIsNoOp ==
  [][(~startCalled /\ lastCall' = "stop" /\ calls' = calls + 1)
       => /\ thrown' = "none"
          /\ timers' = {}
          /\ UNCHANGED <<engine, ctxState, graphs, notes>>]_vars

C6_Witness == lastCall = "stop" /\ ~startCalled /\ ctx

C8_NoContextAllNoOps ==
  [][(~ctx /\ calls' = calls + 1)
       => /\ thrown' = "none"
          /\ UNCHANGED <<engine, ctxState, graphs, timers, notes>>]_vars

\* C8 amended: without an audio context no call throws, no graph is built,
\* no tick is armed, no note is produced and no node reference or timer
\* handle is set; setTheme() still stores the theme it looked up.
C8_NoContextInert ==
  ~ctx => /\ thrown = "none"
          /\ ~typeErrorSeen
          /\ graphs = <<>>
          /\ timers = {}
          /\ notes = EmptyBag
          /\ lastTick = NoTick
          /\ masterGain = 0 /\ compressor = 0
          /\ delayNode = 0 /\ delayFeedback = 0
          /\ intervalId = 0

C8_Witness ==
  /\ ~ctx
  /\ startCalled
  /\ lastCall = "stop"
  /\ currentTheme # 0

\* C9: a run of scheduleNextNote works from the theme that is active when
\* it runs: the pitch of its note is in that theme's scale and the next
\* interval lies in that theme's window; setTheme() leaves the pending
\* ticks, the stored handle and the started notes as they are.
C9_NextTickUsesActiveTheme ==
  [][/\ lastTick' # lastTick
          => /\ lastTick'.theme = currentTheme
             /\ lastTick'.kind = "note"
                  => /\ lastTick'.freq \in Range(Theme(currentTheme).scale)
                     /\ \E n \in DOMAIN notes' :
                          /\ CopiesIn(n, notes') = CopiesIn(n, notes) + 1
                          /\ n.freq = lastTick'.freq
                          /\ n.type = Theme(currentTheme).type
                          /\ n.start = clock
             /\ lastTick'.kind \in {"note", "skip"}
                  => /\ lastTick'.delay >= BaseDelay
                     /\ lastTick'.delay
                          <= BaseDelay + Gap(Theme(currentTheme))
                     /\ (Theme(currentTheme).type # "pad"
                           => lastTick'.delay <= BaseDelay + OtherGap)
     /\ (lastCall' = "setTheme" /\ calls' = calls + 1)
          => /\ timers' = timers
             /\ intervalId' = intervalId
             /\ notes' = notes
     ]_vars

C9_Witness ==
  /\ calls = 2
  /\ startCalled
  /\ lastCall = "setTheme"
  /\ lastTick.kind = "note"
  /\ lastTick.theme = 2
  /\ lastTick.at > 0

\* C10: every theme of the catalog has a non-empty scale, decay > 0,
\* feedback in [0, 1), delay time in [0, 5] and probability in [0, 1], and
\* every value or ramp target programmed into a feedback gain is below 1.
C10_FeedbackBelowOne ==
  /\ \A k \in DOMAIN THEMES :
       /\ Len(THEMES[k].scale) > 0
       /\ THEMES[k].decay > 0
       /\ THEMES[k].feedback >= 0 /\ THEMES[k].feedback < GainDefault
       /\ THEMES[k].delayTime >= 0 /\ THEMES[k].delayTime <= 5000
       /\ THEMES[k].probability >= 0 /\ THEMES[k].probability <= 1000
  /\ \A g \in 1..Len(graphs) : \A i \in 1..Len(graphs[g].feedback) :
       /\ graphs[g].feedback[i].value >= 0
       /\ graphs[g].feedback[i].value < GainDefault

C10_Witness ==
  \E g \in 1..Len(graphs) :
    /\ Len(graphs[g].feedback) = 2
    /\ graphs[g].feedback[2].kind = "ramp"
    /\ graphs[g].feedback[2].value # graphs[g].feedback[1].value

\* a step that is one setTheme() call
SetThemeStep == lastCall' = "setTheme" /\ calls' = calls + 1

\* a step that is one stop() call
StopStep == lastCall' = "stop" /\ calls' = calls + 1

C12_TickAlwaysPending ==
  (running /\ ctx) => \E t \in timers : t.id = intervalId

\* C13: the interval a tick arms lies in [1000, 1000 + window] ms, window
\* 4000 for a pad theme and 2000 otherwise, and while the session runs a
\* further tick is pending that is due within that interval of the last.
C13_NextTickWithinWindow ==
  (running /\ ctx)
    => /\ lastTick.kind \in {"note", "skip"}
       /\ lastTick.delay >= BaseDelay
       /\ lastTick.delay
            <= BaseDelay + (IF Theme(lastTick.theme).type = "pad"
                            THEN 4000 ELSE 2000)
       /\ \E t \in timers : t.due = lastTick.at + lastTick.delay

\* the master level of graph g of a sequence gs, d ms after instant t
Level(gs, g, t, d) == ValueAt(gs[g].mg, t + d, GainDefault)

\* whole seconds over which a fade-out and what follows it is observed
FadeSteps == 0..(FadeSeconds \div CallGrid + 1)

\* C14: stop() discards the master-gain automation scheduled from now on,
\* holds the level the gain currently has and ramps it to 0 over 3 s, so
\* from the stop on the level never rises and is 0 after 3 s; and the
\* master level of every graph ever built stays within [0, 0.5]
C14_FadeOutNeverRises ==
  [][/\ \A g \in 1..Len(graphs') : \A k \in FadeSteps :
          LET v == Level(graphs', g, clock', k * CallGrid)
          IN  v >= 0 /\ v <= FadeInTarget
     /\ (StopStep /\ ctx /\ masterGain # 0) =>
          /\ Level(graphs', masterGain, clock, 0)
               = Level(graphs, masterGain, clock, 0)
          /\ \A k \in FadeSteps :
               Level(graphs', masterGain, clock, (k + 1) * CallGrid)
                 <= Level(graphs', masterGain, clock, k * CallGrid)
          /\ \A k \in FadeSteps :
               Level(graphs', masterGain, clock, FadeSeconds + k * CallGrid) = 0
          /\ LET ev == graphs'[masterGain].mg
             IN  /\ ev[Len(ev)] = RampEvent(0, clock + FadeSeconds)
                 /\ \A i \in 1..(Len(ev) - 1) : ev[i].time <= clock]_vars

\* stop() was called during the fade-in, with the level above 0 and a rise
\* to 0.5 still scheduled
C14_Witness ==
  /\ lastCall = "stop" /\ ctx /\ masterGain # 0 /\ ~running
  /\ Level(graphs, masterGain, clock, 0) > 0
  /\ Level(graphs, masterGain, clock, 0) < FadeInTarget

StartStep == lastCall' = "start" /\ calls' = calls + 1

Wired(gs) == {g \in 1..Len(gs) : gs[g].wired}

\* C15: while the engine is running exactly one graph is connected to the
\* output, and each start() builds a fresh one: master level 0 ramping to
\* 0.5 in 3 s, delay time and feedback set from the active theme (stated
\* for engines that never looked up an undefined theme)
C15_OneGraphWhileRunning ==
  [][/\ (running' /\ ctx' /\ ~typeErrorSeen') =>
          Wired(graphs') = {masterGain'}
     /\ (StartStep /\ ctx /\ ~typeErrorSeen') =>
          /\ Len(graphs') = Len(graphs) + 1
          /\ masterGain' = Len(graphs')
          /\ IsTheme(currentTheme)
          /\ graphs'[masterGain'].mg = FadeIn(clock)
          /\ graphs'[masterGain'].delayTime
               = <<SetEvent(Theme(currentTheme).delayTime, clock)>>
          /\ graphs'[masterGain'].feedback
               = <<SetEvent(Theme(currentTheme).feedback, clock)>>]_vars

\* C16: stop() changes only the pending tick and the master-gain automation:
\* the node references, the theme, the notes already playing, the stored
\* timer id and every other field of every graph are left as they were
C16_StopFrame ==
  [][StopStep =>
       /\ UNCHANGED <<ctx, ctxState, masterGain, compressor, delayNode>>
       /\ UNCHANGED <<delayFeedback, currentTheme, notes, intervalId, clock>>
       /\ timers' \subseteq timers
       /\ Len(graphs') = Len(graphs)
       /\ \A g \in 1..Len(graphs) :
            /\ graphs'[g].delayTime = graphs[g].delayTime
            /\ graphs'[g].feedback = graphs[g].feedback
            /\ graphs'[g].wired = graphs[g].wired
            /\ graphs'[g].edges = graphs[g].edges
            /\ g # masterGain => graphs'[g] = graphs[g]]_vars

\* stop() has acted on a connected graph while a note was still sounding
C16_Witness ==
  /\ lastCall = "stop" /\ ctx /\ masterGain # 0 /\ ~running
  /\ graphs[masterGain].wired
  /\ notes # EmptyBag
  /\ graphs[masterGain].mg[Len(graphs[masterGain].mg)].value = 0

RECURSIVE ReachFrom(_, _)
ReachFrom(E, S) ==
  LET T == S \cup {e[2] : e \in {x \in E : x[1] \in S}}
  IN  IF T = S THEN S ELSE ReachFrom(E, T)

Without(E, n) == {e \in E : e[1] # n /\ e[2] # n}

AllGraphEdges == UNION {graphs[g].edges : g \in 1..Len(graphs)}

Sources(ed) == {x \in {e[1] : e \in ed} : x[1] \in {"osc", "mod"}}

\* the distinct wirings among the sounding notes
NoteWirings ==
  {[type |-> n.type, dest |-> n.dest, edges |-> n.edges] :
     n \in BagToSet(notes)}

\* C17: a note's sources reach the output device only through the master
\* gain they were connected to and then a compressor; a connected graph
\* has the dry path master -> compressor, the wet path master -> delay ->
\* compressor and the loop delay -> feedback -> delay; only a compressor
\* feeds the output device; a wood carrier reaches its envelope only
\* through its lowpass filter
C17_Wiring ==
  /\ \A e \in AllGraphEdges \cup UNION {n.edges : n \in NoteWirings} :
       e[2] = Destination => e[1][1] = "compressor"
  /\ \A g \in Wired(graphs) :
       /\ << <<"masterGain", g>>, <<"compressor", g>> >> \in graphs[g].edges
       /\ << <<"masterGain", g>>, <<"delayNode", g>> >> \in graphs[g].edges
       /\ << <<"delayNode", g>>, <<"compressor", g>> >> \in graphs[g].edges
       /\ << <<"delayNode", g>>, <<"delayFeedback", g>> >> \in graphs[g].edges
       /\ << <<"delayFeedback", g>>, <<"delayNode", g>> >> \in graphs[g].edges
       /\ << <<"compressor", g>>, Destination >> \in graphs[g].edges
  /\ \A n \in NoteWirings :
       LET E == n.edges \cup AllGraphEdges
       IN  /\ Sources(n.edges) # {}
           /\ \A s \in Sources(n.edges) :
                /\ graphs[n.dest].wired => Destination \in ReachFrom(E, {s})
                /\ Destination \notin
                     ReachFrom(Without(E, <<"masterGain", n.dest>>), {s})
           /\ n.type = "wood" =>
                /\ N("gain") \in ReachFrom(n.edges, {N("osc")})
                /\ N("gain") \notin
                     ReachFrom(Without(n.edges, N("filter")), {N("osc")})

\* a wood note and a bell note are sounding on connected graphs
C17_Witness ==
  /\ \E n \in BagToSet(notes) : n.type = "wood" /\ graphs[n.dest].wired
  /\ \E n \in BagToSet(notes) : n.type = "bell" /\ graphs[n.dest].wired

RECURSIVE MaxOf(_)
MaxOf(S) ==
  LET x == CHOOSE y \in S : TRUE
  IN  IF S = {x} THEN x
      ELSE LET m == MaxOf(S \ {x}) IN IF x > m THEN x ELSE m

\* the longest a note of the catalog lives: longest decay plus the stop tail
MaxLife == MaxOf({THEMES[i].decay : i \in 1..Len(THEMES)}) + StopTail

\* C18: every note is self-terminating: its carrier stops at start + decay
\* + 1 s, strictly after the envelope ends at start + decay; for every
\* catalog theme the attack ends strictly between the start and the decay
\* end (20 ms, pad 2 s); a note is live only until its stop instant, so the
\* live notes are those of the last MaxLife ms and their number is bounded
C18_NotesSelfTerminating ==
  /\ \A k \in 0..(Len(THEMES) - 1) :
       /\ 0 < AttackEnd(Theme(k), 0)
       /\ AttackEnd(Theme(k), 0) < Theme(k).decay
       /\ AttackEnd(Theme(k), 0) = IF Theme(k).type = "pad" THEN 2000 ELSE 20
  /\ \A n \in BagToSet(notes) :
       /\ n.start < n.attackEnd
       /\ n.attackEnd < n.envEnd
       /\ n.envEnd < n.stopAt
       /\ n.stopAt = n.envEnd + StopTail
       /\ \E k \in 0..(Len(THEMES) - 1) :
            /\ Theme(k).type = n.type
            /\ n.envEnd = n.start + Theme(k).decay
       /\ n.start <= clock
       /\ clock < n.stopAt
       /\ clock - n.start < MaxLife
  /\ BagCardinality(notes) <= Len(graphs) * (MaxLife \div BaseDelay + 1)

\* a Night Rain note played at 0 has stopped and is gone 2 s later
C18_Witness ==
  /\ lastTick.kind = "note" /\ lastTick.theme = 1 /\ lastTick.at = 0
  /\ clock >= Theme(1).decay + StopTail
  /\ notes = EmptyBag

\* C19: under the App every step that leaves the SESSION view calls stop(),
\* start() is called only in a step from HOME to SESSION and then no tick
\* is pending, and whenever the view is not SESSION no tick is pending and
\* the engine is not running
C19_AppStopsOnLeavingSession ==
  [][/\ (view = "SESSION" /\ view' # "SESSION") =>
          /\ StopStep
          /\ view' \in {"DONE", "HOME"}
          /\ timers' = {}
     /\ StartStep =>
          /\ view = "HOME" /\ view' = "SESSION"
          /\ timers = {}
          /\ ~running
          /\ IsTheme(currentTheme')
     /\ view' # "SESSION" => (timers' = {} /\ ~running')
     /\ (view # "SESSION" /\ view' # "SESSION") => lastCall' = lastCall]_vars

\* a second session starts after the first one, in which a tick was
\* pending, was left with the stop button
C19_Witness ==
  /\ view = "SESSION" /\ lastCall = "start" /\ calls = 3 /\ Len(graphs) = 2
  /\ timers # {}
====
